---- MODULE Spec2Model ----
(***************************************************************************)
(* Playback controller of dspy-explorer: the React hook usePlayback        *)
(* (srcts/hooks/usePlayback.ts) together with the timers it schedules,     *)
(* the phase classifier detectPhase in its three variants, and            *)
(* annotatePhases with the hook usePhaseDetection that reveals its labels. *)
(*                                                                         *)
(* One action is one event-loop task: a command handler (or a timer        *)
(* callback, or a re-render of the caller with a new sequence length),     *)
(* the batched state updates it queues, the re-render they cause and the   *)
(* effects of that render, up to the settled state.                        *)
(***************************************************************************)
EXTENDS Integers, FiniteSets, Sequences, TLC

(* ---- bounds ---- *)
MaxTotal == 3          \* largest sequence length explored by Spec
MaxAutoTotal == 8      \* largest sequence length explored by SpecAuto
JumpSlack == 2         \* jumpTo arguments range over -JumpSlack .. MaxTotal-1+JumpSlack
MaxIters == 5          \* longest iteration sequence handed to the classifier
MaxRevealed == 3       \* longest iteration sequence played back by SpecReveal

(* ---- program constants ---- *)
BaseDelay == 3000
NoTimer == 0           \* timerRef.current === null

PlaybackStates == {"idle", "playing", "paused", "done"}
Speeds == {1, 2, 3}
ManualCommands == {"pause", "step", "stepBack", "reset", "jumpTo"}

VARIABLES
  totalIterations,   \* the hook's argument at the last render
  state,             \* useState<PlaybackState>
  currentIndex,      \* useState(-1)
  speed,             \* useState<PlaybackSpeed>
  timerRef,          \* useRef: handle of the tracked timer, NoTimer for null
  stateRef,          \* useRef(state), assigned at every render
  indexRef,          \* useRef(currentIndex), assigned at every render
  prevTotalRef,      \* useRef(totalIterations)
  timers,            \* the host's pending timeouts: records [id, total, speed, delay]
  lastCancelled,     \* closure of the timeout cancelled last, <<>> if none or delivered
  lastOp,            \* history: the action taken last, its argument, and the
                     \* state and currentIndex it was taken in
  lastCmd,           \* history: the transport command (anything but setSpeed) invoked last
  iterations,        \* the iteration sequence handed to the classifier
  phaseOut,          \* the classifier call made last and what it returned
  annotated,         \* usePhaseDetection's memo: annotatePhases(iterations), <<>> before
  seen               \* history: for each position, the labels reported for it so far

vars == <<totalIterations, state, currentIndex, speed, timerRef, stateRef,
          indexRef, prevTotalRef, timers, lastCancelled, lastOp, lastCmd,
          iterations, phaseOut, annotated, seen>>

playbackVars == <<totalIterations, state, currentIndex, speed, timerRef, stateRef,
                  indexRef, prevTotalRef, timers, lastCancelled, lastOp, lastCmd>>

Max(a, b) == IF a >= b THEN a ELSE b
Min(a, b) == IF a <= b THEN a ELSE b

(* The values a render closes over. *)
View == [state |-> state, currentIndex |-> currentIndex, speed |-> speed,
         total |-> totalIterations]

(* The timer handle and the host's timer table. *)
Env == [timers |-> timers, timerRef |-> timerRef, lastCancelled |-> lastCancelled]

(* ---- host timers ---- *)

(* clearTimeout(id): synchronous; a no-op for an id that is not pending. *)
clearTimeout(e, id) ==
  LET hit == {t \in e.timers : t.id = id}
  IN  IF hit = {} THEN e
      ELSE [e EXCEPT !.timers = @ \ hit,
                     !.lastCancelled =
                        LET t == CHOOSE x \in hit : TRUE
                        IN  [total |-> t.total, speed |-> t.speed]]

(* setTimeout returns a handle distinct from every pending one. *)
FreshId(tm) ==
  CHOOSE i \in 1..(Cardinality(tm) + 1) :
    /\ \A t \in tm : t.id # i
    /\ \A j \in 1..(i - 1) : \E t \in tm : t.id = j

(* ---- the hook ---- *)

clearTimerNoCancel(e) == [e EXCEPT !.timerRef = NoTimer]

clearTimer(e) ==
  IF e.timerRef # NoTimer
    THEN [clearTimeout(e, e.timerRef) EXCEPT !.timerRef = NoTimer]
    ELSE e

getDelayIgnoresSpeed(sp) == BaseDelay

getDelay(sp) == BaseDelay \div sp

(* scheduleNext of a render with the given total and speed: cancel the     *)
(* tracked timer, then track a new timeout whose callback closes over them *)
scheduleNext(e, total, sp) ==
  LET c  == clearTimer(e)
      id == FreshId(c.timers)
  IN  [c EXCEPT !.timers = @ \cup {[id |-> id, total |-> total, speed |-> sp,
                                    delay |-> getDelay(sp)]},
                !.timerRef = id]

(* The timeout callback of the closure c: reads the refs, queues updates   *)
(* on the view v, and reschedules itself through its own scheduleNext.     *)
timerCallbackNoCheck(c, sref, iref, v, e) ==
  LET nextIdx == iref + 1
  IN  IF nextIdx >= c.total
        THEN [view |-> [v EXCEPT !.state = "done", !.currentIndex = c.total - 1],
              env  |-> e]
        ELSE [view |-> [v EXCEPT !.currentIndex = nextIdx],
              env  |-> scheduleNext(e, c.total, c.speed)]

timerCallbackOffByOne(c, sref, iref, v, e) ==
  IF sref # "playing" THEN [view |-> v, env |-> e]
  ELSE LET nextIdx == iref + 1
       IN  IF nextIdx > c.total
             THEN [view |-> [v EXCEPT !.state = "done", !.currentIndex = c.total - 1],
                   env  |-> e]
             ELSE [view |-> [v EXCEPT !.currentIndex = nextIdx],
                   env  |-> scheduleNext(e, c.total, c.speed)]

timerCallback(c, sref, iref, v, e) ==
  IF sref # "playing" THEN [view |-> v, env |-> e]
  ELSE LET nextIdx == iref + 1
       IN  IF nextIdx >= c.total
             THEN [view |-> [v EXCEPT !.state = "done", !.currentIndex = c.total - 1],
                   env  |-> e]
             ELSE [view |-> [v EXCEPT !.currentIndex = nextIdx],
                   env  |-> scheduleNext(e, c.total, c.speed)]

(* Command handlers: v is the render the handler closes over, e the timer  *)
(* state it acts on synchronously; the result is the batched updates.      *)
playAlwaysResumes(v, e) ==
  IF v.total = 0 THEN [view |-> v, env |-> e]
  ELSE IF v.state = "done"
    THEN [view |-> [v EXCEPT !.currentIndex = 0, !.state = "playing"], env |-> e]
  ELSE IF v.currentIndex < 0
    THEN [view |-> [v EXCEPT !.currentIndex = 0, !.state = "playing"], env |-> e]
  ELSE [view |-> [v EXCEPT !.state = "playing"], env |-> e]

play(v, e) ==
  IF v.total = 0 THEN [view |-> v, env |-> e]
  ELSE IF v.state = "done" \/ v.currentIndex >= v.total - 1
    THEN [view |-> [v EXCEPT !.currentIndex = 0, !.state = "playing"], env |-> e]
  ELSE IF v.currentIndex < 0
    THEN [view |-> [v EXCEPT !.currentIndex = 0, !.state = "playing"], env |-> e]
  ELSE [view |-> [v EXCEPT !.state = "playing"], env |-> e]

pause(v, e) ==
  [view |-> [v EXCEPT !.state = "paused"], env |-> clearTimer(e)]

stepDoneOnReach(v, e) ==
  LET nextIdx == v.currentIndex + 1
  IN  IF nextIdx >= v.total - 1
        THEN [view |-> [v EXCEPT !.currentIndex = Min(nextIdx, v.total - 1),
                                 !.state = "done"],
              env  |-> clearTimer(e)]
        ELSE [view |-> [v EXCEPT !.currentIndex = nextIdx, !.state = "paused"],
              env  |-> clearTimer(e)]

stepKeepPlaying(v, e) ==
  LET nextIdx == v.currentIndex + 1
  IN  IF nextIdx >= v.total
        THEN [view |-> [v EXCEPT !.state = "done"], env |-> clearTimer(e)]
        ELSE [view |-> [v EXCEPT !.currentIndex = nextIdx], env |-> clearTimer(e)]

step(v, e) ==
  LET nextIdx == v.currentIndex + 1
  IN  IF nextIdx >= v.total
        THEN [view |-> [v EXCEPT !.state = "done"], env |-> clearTimer(e)]
        ELSE [view |-> [v EXCEPT !.currentIndex = nextIdx, !.state = "paused"],
              env  |-> clearTimer(e)]

stepBackNoFloor(v, e) ==
  [view |-> [v EXCEPT !.currentIndex = v.currentIndex - 1, !.state = "paused"],
   env  |-> clearTimer(e)]

stepBack(v, e) ==
  LET prevIdx == Max(0, v.currentIndex - 1)
  IN  [view |-> [v EXCEPT !.currentIndex = prevIdx, !.state = "paused"],
       env  |-> clearTimer(e)]

resetKeepIndex(v, e) ==
  [view |-> [v EXCEPT !.state = "idle"], env |-> clearTimer(e)]

resetSpeedToo(v, e) ==
  [view |-> [v EXCEPT !.currentIndex = -1, !.state = "idle", !.speed = 1],
   env  |-> clearTimer(e)]

resetKeepState(v, e) ==
  [view |-> [v EXCEPT !.currentIndex = -1], env |-> clearTimer(e)]

reset(v, e) ==
  [view |-> [v EXCEPT !.currentIndex = -1, !.state = "idle"],
   env  |-> clearTimer(e)]

jumpTo(index, v, e) ==
  [view |-> [v EXCEPT !.currentIndex = Max(0, Min(index, v.total - 1)),
                      !.state = "paused"],
   env  |-> clearTimer(e)]

setSpeed(s, v, e) ==
  [view |-> [v EXCEPT !.speed = s], env |-> e]

lengthEffectKeepState(v, e, prevTotal) ==
  IF prevTotal # v.total
    THEN [view |-> [v EXCEPT !.currentIndex = -1],
          env |-> clearTimer(e), prevTotal |-> v.total]
    ELSE [view |-> v, env |-> e, prevTotal |-> prevTotal]

(* The effect that resets playback when the sequence length changed. *)
lengthEffect(v, e, prevTotal) ==
  IF prevTotal # v.total
    THEN [view |-> [v EXCEPT !.currentIndex = -1, !.state = "idle"],
          env |-> clearTimer(e), prevTotal |-> v.total]
    ELSE [view |-> v, env |-> e, prevTotal |-> prevTotal]

playingEffectAlwaysSchedules(v, e) == scheduleNext(e, v.total, v.speed)

(* The effect that keeps a timer scheduled exactly while playing. *)
playingEffect(v, e) ==
  IF v.state = "playing" THEN scheduleNext(e, v.total, v.speed) ELSE clearTimer(e)

(* Re-render from the view old to the view new and run the effects whose   *)
(* dependencies changed: the playing effect's cleanup, then the effects in *)
(* declaration order; updates queued by an effect cause one more render.   *)
(* Equal state values make React bail out without a render.                *)
RECURSIVE Commit(_, _, _, _)
Commit(old, new, e, prevTotal) ==
  IF new = old
    THEN [view |-> old, env |-> e, prevTotal |-> prevTotal]
    ELSE LET e1 == clearTimer(e)
             le == IF new.total # old.total
                     THEN lengthEffect(new, e1, prevTotal)
                     ELSE [view |-> new, env |-> e1, prevTotal |-> prevTotal]
             e3 == playingEffect(new, le.env)
         IN  IF le.view # new
               THEN Commit(new, le.view, e3, le.prevTotal)
               ELSE [view |-> new, env |-> e3, prevTotal |-> le.prevTotal]

(* ======================= phase classifier ======================= *)

Phases == {"orient", "locate", "trace_code", "cross_reference", "identify_gap"}

(* A text is the set of its lines, drawn from the sample lines below; a    *)
(* regular expression is the set of sample lines it matches (no pattern    *)
(* of the classifier matches across a line break), and regex.test(text)    *)
(* holds when some line of the text matches.                               *)
CodeLines ==
  {"SUBMIT(answer)", "submit(answer)", "print(context[:500])", "len(context)",
   "re.findall(pat, text)", "text.find(key)", "[l for l in lines if key in l]",
   "llm_query(prompt)", "import re", "exec_source('a', 'head -5')",
   "inspect_source('b')", "list_files()"}

ReasoningLines ==
  {"explore the structure", "searching for the matching entry",
   "trace the method definition", "compile the findings",
   "find the class implementation", "follow the call chain to find it"}

test(regex, text) == \E line \in text : line \in regex

toLowerCase(text) ==
  {IF line = "SUBMIT(answer)" THEN "submit(answer)" ELSE line : line \in text}

(* exec_source('name', ...) and inspect_source('name', ...) calls of a code *)
findSourceVars(code) ==
  {v \in {"a", "b"} :
     \/ v = "a" /\ "exec_source('a', 'head -5')" \in code
     \/ v = "b" /\ "inspect_source('b')" \in code}

(* ---- part_005 ---- *)
RE5_submit == {"SUBMIT(answer)"}                      \* /SUBMIT\s*\(/
RE5_printPrefix == {"print(context[:500])"}           \* /print\(.*\[:/
RE5_contextPrefix == {"print(context[:500])"}         \* /context\s*\[\s*:\s*\d/
RE5_introspect == {"len(context)"}                    \* /type\(|len\(|dir\(|\.keys\(/
RE5_orientReasoning == {"explore the structure"}      \* /structure|overview|explore|.../
RE5_traceReasoning ==                                 \* /definition|implementation|method|.../
  {"trace the method definition", "find the class implementation",
   "follow the call chain to find it"}
RE5_locateReasoning ==                                \* /search(ing)?(\s+for)?|find(ing)?(\s+the)?|.../
  {"searching for the matching entry", "compile the findings",
   "find the class implementation", "follow the call chain to find it"}
RE5_synthesizeReasoning == {"compile the findings"}   \* /compile|synthesiz|format.*final|.../
RE5_regexSearch == {"re.findall(pat, text)"}          \* /re\.(findall|search|match)\s*\(/
RE5_listCompFilter == {"[l for l in lines if key in l]"}   \* /\[.*\bfor\b.*\bin\b.*\bif\b/
RE5_findIndex == {"text.find(key)"}                   \* /\.find\(|\.index\(|\.count\(/
RE5_print == {"print(context[:500])"}                 \* /print\(/
RE5_slice == {"print(context[:500])"}                 \* /\[.*:.*\]/

tieBreakHalf_005(idx, totalIters) ==
  IF idx > (totalIters * 5) \div 10 THEN "trace_code" ELSE "locate"

(* idx > Math.floor(totalIters * 0.4) ? "trace_code" : "locate" *)
tieBreak_005(idx, totalIters) ==
  IF idx > (totalIters * 4) \div 10 THEN "trace_code" ELSE "locate"

orientWindowFirstOnly_005(idx) == idx <= 1

(* idx <= 2 && (...) *)
orientWindow_005(idx) == idx <= 2

positionalDefaultSwapped_005(idx) == IF idx <= 2 THEN "locate" ELSE "orient"

positionalDefault_005(idx) == IF idx <= 2 THEN "orient" ELSE "locate"

detectPhase_005(iter, allIterations) ==
  LET code == iter.code
      codeLower == toLowerCase(code)
      reasoning == toLowerCase(iter.reasoning)
      idx == iter.iteration
      totalIters == Len(allIterations)
      traceReasoning == test(RE5_traceReasoning, reasoning)
      locateReasoning == test(RE5_locateReasoning, reasoning)
      synthesizeReasoning == test(RE5_synthesizeReasoning, reasoning)
      hasRegexSearch == test(RE5_regexSearch, codeLower)
      hasListCompFilter == test(RE5_listCompFilter, codeLower)
      hasFindIndex == test(RE5_findIndex, codeLower)
  IN  IF iter.is_final \/ test(RE5_submit, code) THEN "identify_gap"
      ELSE IF /\ orientWindow_005(idx)
              /\ \/ test(RE5_printPrefix, code)
                 \/ test(RE5_contextPrefix, codeLower)
                 \/ test(RE5_introspect, codeLower)
                 \/ test(RE5_orientReasoning, reasoning)
        THEN "orient"
      ELSE IF synthesizeReasoning /\ idx >= totalIters - 2 THEN "identify_gap"
      ELSE IF traceReasoning /\ locateReasoning THEN tieBreak_005(idx, totalIters)
      ELSE IF traceReasoning THEN "trace_code"
      ELSE IF hasRegexSearch \/ hasListCompFilter \/ hasFindIndex \/ locateReasoning
        THEN "locate"
      ELSE IF test(RE5_print, codeLower) /\ test(RE5_slice, code) /\ idx <= 3
        THEN "orient"
      ELSE positionalDefault_005(idx)

(* ---- part_006 ---- *)
RE6_submit == {"submit(answer)"}                      \* /submit\s*\(/
RE6_printPrefix == {"print(context[:500])"}           \* /print\(.*\[:/
RE6_introspect == {"len(context)"}                    \* /type\(|len\(|dir\(|\.keys\(/
RE6_orientReasoning == {"explore the structure"}      \* /structure|overview|explore|understand/
RE6_llmQuery == {"llm_query(prompt)"}                 \* /llm_query/
RE6_traceCode == {"import re"}                        \* /import|class\s|def\s|super\(\)|.../
RE6_traceReasoning ==                                 \* /trace|follow|logic|chain|hierarchy/
  {"trace the method definition", "follow the call chain to find it"}
RE6_locateCode == {"print(context[:500])", "text.find(key)"}   \* /\.find\(|\.index\(|\.count\(|\[.*:.*\]/
RE6_locateReasoning ==                                \* /search|find|locate|identify|look for/
  {"searching for the matching entry", "compile the findings",
   "find the class implementation", "follow the call chain to find it"}

detectPhase_006(iter, allIterations) ==
  LET code == toLowerCase(iter.code)
      reasoning == toLowerCase(iter.reasoning)
      idx == iter.iteration
  IN  IF iter.is_final \/ test(RE6_submit, code) THEN "identify_gap"
      ELSE IF /\ idx <= 2
              /\ \/ test(RE6_printPrefix, code)
                 \/ test(RE6_introspect, code)
                 \/ test(RE6_orientReasoning, reasoning)
        THEN "orient"
      ELSE IF test(RE6_llmQuery, code) THEN "cross_reference"
      ELSE IF test(RE6_traceCode, code) \/ test(RE6_traceReasoning, reasoning)
        THEN "trace_code"
      ELSE IF test(RE6_locateCode, code) \/ test(RE6_locateReasoning, reasoning)
        THEN "locate"
      ELSE IF idx <= 3 THEN "orient" ELSE "locate"

(* ---- part_007 ---- *)
RE7_orient == {"list_files()"}                        \* /list_files|grep|overview|structure/
RE7_submit == {"submit(answer)"}                      \* /submit\s*\(/
RE7_traceCode == {"import re"}                        \* /import|class\s|def\s|super\(\)|.../
RE7_locateCode ==                                     \* /inspect_source|exec_source.*grep|search|find/
  {"re.findall(pat, text)", "text.find(key)", "inspect_source('b')"}

slice0Inclusive(xs, end) == SubSeq(xs, 1, Min(Max(end + 1, 0), Len(xs)))

(* allIterations.slice(0, end) *)
slice0(xs, end) == SubSeq(xs, 1, Min(Max(end, 0), Len(xs)))

detectPhase_007(iter, allIterations) ==
  LET code == toLowerCase(iter.code)
      idx == iter.iteration
      currentVars == findSourceVars(iter.code)
      prevs == slice0(allIterations, idx - 1)
      previousVars == UNION {findSourceVars(prevs[i].code) : i \in 1..Len(prevs)}
      newVars == currentVars \ previousVars
  IN  IF idx <= 2 /\ test(RE7_orient, code) THEN "orient"
      ELSE IF iter.is_final \/ test(RE7_submit, code) THEN "identify_gap"
      ELSE IF currentVars # {} /\ idx > 3 /\ newVars # {} THEN "cross_reference"
      ELSE IF test(RE7_traceCode, code) THEN "trace_code"
      ELSE IF test(RE7_locateCode, code) THEN "locate"
      ELSE IF idx <= 3 THEN "orient" ELSE "locate"

(* ---- annotatePhases and usePhaseDetection ---- *)

(* iter.phase of a record without a label *)
NoPhase == "none"

(* annotatePhases maps the list to a new list of new records; the result   *)
(* is the input list as the call leaves it and the list returned.          *)
annotatePhasesOverwrites_005(xs) ==
  [input  |-> xs,
   output |-> [i \in 1..Len(xs) |->
                 [xs[i] EXCEPT !.phase = detectPhase_005(xs[i], xs)]]]

annotatePhases_005(xs) ==
  [input  |-> xs,
   output |-> [i \in 1..Len(xs) |->
                 [xs[i] EXCEPT !.phase =
                    IF @ # NoPhase THEN @ ELSE detectPhase_005(xs[i], xs)]]]

annotatePhases_006(xs) ==
  [input  |-> xs,
   output |-> [i \in 1..Len(xs) |->
                 [xs[i] EXCEPT !.phase =
                    IF @ # NoPhase THEN @ ELSE detectPhase_006(xs[i], xs)]]]

annotatePhases_007(xs) ==
  [input  |-> xs,
   output |-> [i \in 1..Len(xs) |->
                 [xs[i] EXCEPT !.phase =
                    IF @ # NoPhase THEN @ ELSE detectPhase_007(xs[i], xs)]]]

usePhaseDetectionRelabels(annot, index) ==
  LET visible == slice0(annot, index + 1)
      phases  == [i \in 1..Len(visible) |-> detectPhase_005(visible[i], visible)]
  IN  [phases |-> phases,
       currentPhase |-> IF Len(phases) > 0 THEN phases[Len(phases)] ELSE NoPhase]

(* The second memo of usePhaseDetection: the labels of the revealed        *)
(* iterations and the label of the last of them (null if none).            *)
usePhaseDetection(annot, index) ==
  LET visible == slice0(annot, index + 1)
      phases  == [i \in 1..Len(visible) |-> visible[i].phase]
  IN  [phases |-> phases,
       currentPhase |-> IF Len(phases) > 0 THEN phases[Len(phases)] ELSE NoPhase]

(* The labels reported so far, extended by the list reported at a render. *)
Seen(sn, phases) ==
  [i \in 1..Len(sn) |-> IF i <= Len(phases) THEN sn[i] \cup {phases[i]} ELSE sn[i]]

(* ======================= playback actions ======================= *)

Settle(op, arg, res) ==
  LET c == Commit(View, res.view, res.env, prevTotalRef)
  IN  /\ state' = c.view.state
      /\ currentIndex' = c.view.currentIndex
      /\ speed' = c.view.speed
      /\ totalIterations' = c.view.total
      /\ stateRef' = c.view.state
      /\ indexRef' = c.view.currentIndex
      /\ prevTotalRef' = c.prevTotal
      /\ timers' = c.env.timers
      /\ timerRef' = c.env.timerRef
      /\ lastCancelled' = c.env.lastCancelled
      /\ lastOp' = [op |-> op, arg |-> arg, from |-> state, fromIndex |-> currentIndex]
      /\ lastCmd' = IF op \in ManualCommands \cup {"play"} THEN op ELSE lastCmd
      /\ seen' = Seen(seen, usePhaseDetection(annotated, c.view.currentIndex).phases)
      /\ UNCHANGED <<iterations, phaseOut, annotated>>

Play == Settle("play", 0, play(View, Env))
Pause == Settle("pause", 0, pause(View, Env))
Step == Settle("step", 0, step(View, Env))
StepBack == Settle("stepBack", 0, stepBack(View, Env))
Reset == Settle("reset", 0, reset(View, Env))
JumpTo(i) == Settle("jumpTo", i, jumpTo(i, View, Env))
SetSpeed(s) == Settle("setSpeed", s, setSpeed(s, View, Env))

(* The caller re-renders with a sequence of another length. *)
LengthChange(n) ==
  /\ n # totalIterations
  /\ Settle("lengthChange", n, [view |-> [View EXCEPT !.total = n], env |-> Env])

(* The caller re-renders with another sequence of the same length (the     *)
(* selected run's trace arrives, the mode is toggled, a live result        *)
(* arrives): the hook is called with an unchanged totalIterations.         *)
TraceReplaced ==
  Settle("traceReplaced", totalIterations, [view |-> View, env |-> Env])

(* A pending timeout fires: the host drops it and runs its callback. *)
TimerFire ==
  \E t \in timers :
    Settle("timerFire", 0,
           timerCallback([total |-> t.total, speed |-> t.speed], stateRef, indexRef,
                         View, [Env EXCEPT !.timers = @ \ {t}]))

(* A host without synchronous cancellation: the callback of the timeout    *)
(* cancelled last is delivered once all the same.                          *)
StaleFire ==
  /\ lastCancelled # <<>>
  /\ Settle("staleFire", 0,
            timerCallback(lastCancelled, stateRef, indexRef,
                          View, [Env EXCEPT !.lastCancelled = <<>>]))

Mounted(totals, speeds) ==
  /\ totalIterations \in totals
  /\ state = "idle"
  /\ currentIndex = -1
  /\ speed \in speeds
  /\ timerRef = NoTimer
  /\ stateRef = state
  /\ indexRef = currentIndex
  /\ prevTotalRef = totalIterations
  /\ timers = {}
  /\ lastCancelled = <<>>
  /\ lastOp = [op |-> "mount", arg |-> 0, from |-> "idle", fromIndex |-> -1]
  /\ lastCmd = "none"

(* The controller sees the sequence's length only; its specifications     *)
(* carry no iteration records and make no classifier call.                 *)
NoPhaseOut == [op |-> "none", k |-> 0, full |-> "none", prefix |-> "none"]

NoTrace ==
  /\ iterations = <<>>
  /\ phaseOut = NoPhaseOut
  /\ annotated = <<>>
  /\ seen = <<>>

Init == Mounted(0..MaxTotal, {1}) /\ NoTrace

Next ==
  \/ Play
  \/ Pause
  \/ Step
  \/ StepBack
  \/ Reset
  \/ \E i \in (0 - JumpSlack)..(MaxTotal - 1 + JumpSlack) : JumpTo(i)
  \/ \E s \in Speeds : SetSpeed(s)
  \/ \E n \in 0..MaxTotal : LengthChange(n)
  \/ TraceReplaced
  \/ TimerFire

Spec == Init /\ [][Next]_vars

(* Spec in a host where a cancelled callback may still be delivered. *)
NextRace == Next \/ StaleFire

SpecRace == Init /\ [][NextRace]_vars

(* play() from idle followed by timer fires only, timers firing fairly. *)
InitAuto == Mounted(1..MaxAutoTotal, Speeds) /\ NoTrace

PlayFromIdle == state = "idle" /\ Play

NextAuto == PlayFromIdle \/ TimerFire

SpecAuto == InitAuto /\ [][NextAuto]_vars /\ WF_vars(TimerFire)

(* ======================= classifier calls ======================= *)

(* Texts of the iteration under test, and codes of the others. *)
CodeTexts ==
  {{}} \cup {{line} : line \in CodeLines}
       \cup {{"print(context[:500])", "import re"},
             {"len(context)", "text.find(key)"},
             {"re.findall(pat, text)", "llm_query(prompt)"},
             {"exec_source('a', 'head -5')", "inspect_source('b')"}}

ReasoningTexts == {t \in SUBSET ReasoningLines : Cardinality(t) <= 2}

OtherCodes == {{}, {"exec_source('a', 'head -5')"}}

(* A sequence of 1..MaxIters iterations, numbered from 1 without gaps,     *)
(* only the last of which may be final.                                    *)
InitPhase ==
  /\ \E n \in 1..MaxIters :
       \E k \in 1..n, fin \in BOOLEAN, c \in CodeTexts, r \in ReasoningTexts,
          f \in [1..n -> OtherCodes] :
         iterations =
           [i \in 1..n |->
              [iteration |-> i,
               code      |-> IF i = k THEN c ELSE f[i],
               reasoning |-> IF i = k THEN r ELSE {},
               is_final  |-> (fin /\ i = n)]]
  /\ phaseOut = NoPhaseOut
  /\ annotated = <<>>
  /\ seen = <<>>
  /\ Mounted({Len(iterations)}, {1})

(* detectPhase on iteration k, given the whole sequence and given only the *)
(* iterations up to k.                                                     *)
Classified(op, k, full, prefix) ==
  /\ phaseOut = NoPhaseOut
  /\ phaseOut' = [op |-> op, k |-> k, full |-> full, prefix |-> prefix]
  /\ UNCHANGED <<iterations, annotated, seen>>
  /\ UNCHANGED playbackVars

Classify_005(k) ==
  Classified("detectPhase_005", k,
             detectPhase_005(iterations[k], iterations),
             detectPhase_005(iterations[k], SubSeq(iterations, 1, k)))

Classify_006(k) ==
  Classified("detectPhase_006", k,
             detectPhase_006(iterations[k], iterations),
             detectPhase_006(iterations[k], SubSeq(iterations, 1, k)))

Classify_007(k) ==
  Classified("detectPhase_007", k,
             detectPhase_007(iterations[k], iterations),
             detectPhase_007(iterations[k], SubSeq(iterations, 1, k)))

NextPhase ==
  \/ \E k \in 1..Len(iterations) : Classify_005(k)
  \/ \E k \in 1..Len(iterations) : Classify_006(k)
  \/ \E k \in 1..Len(iterations) : Classify_007(k)

SpecPhase == InitPhase /\ [][NextPhase]_vars

(* The iteration the last classifier call was about. *)
Classed == iterations[phaseOut.k]

(* ======================= phase progress ======================= *)

(* The kinds of iteration of a played-back sequence: code, reasoning and   *)
(* the label the record arrives with, if any.                              *)
IterationKinds ==
  {[code |-> {"re.findall(pat, text)"},
    reasoning |-> {"follow the call chain to find it"}, phase |-> NoPhase],
   [code |-> {"exec_source('a', 'head -5')"},
    reasoning |-> {"compile the findings"}, phase |-> NoPhase],
   [code |-> {"print(context[:500])"},
    reasoning |-> {"explore the structure"}, phase |-> "cross_reference"]}

(* App mounted with a sequence of 1..MaxRevealed iterations. *)
InitReveal ==
  /\ \E n \in 1..MaxRevealed :
       \E fin \in BOOLEAN, f \in [1..n -> IterationKinds] :
         iterations =
           [i \in 1..n |->
              [iteration |-> i,
               code      |-> f[i].code,
               reasoning |-> f[i].reasoning,
               is_final  |-> (fin /\ i = n),
               phase     |-> f[i].phase]]
  /\ phaseOut = NoPhaseOut
  /\ annotated = <<>>
  /\ seen = [i \in 1..Len(iterations) |-> {}]
  /\ Mounted({Len(iterations)}, {1})

(* The render in which usePhaseDetection computes its memo of the sequence *)
Annotated(op, res) ==
  /\ annotated = <<>>
  /\ annotated' = res.output
  /\ iterations' = res.input
  /\ phaseOut' = [NoPhaseOut EXCEPT !.op = op]
  /\ seen' = Seen(seen, usePhaseDetection(res.output, currentIndex).phases)
  /\ UNCHANGED playbackVars

Annotate_005 == Annotated("annotatePhases_005", annotatePhases_005(iterations))
Annotate_006 == Annotated("annotatePhases_006", annotatePhases_006(iterations))
Annotate_007 == Annotated("annotatePhases_007", annotatePhases_007(iterations))

(* Playback of the annotated sequence: every command re-renders App, which *)
(* calls usePhaseDetection with the new currentIndex.                      *)
NextReveal ==
  \/ Annotate_005
  \/ Annotate_006
  \/ Annotate_007
  \/ annotated # <<>> /\ Play
  \/ annotated # <<>> /\ TimerFire
  \/ annotated # <<>> /\ Step
  \/ annotated # <<>> /\ StepBack
  \/ annotated # <<>> /\ \E i \in 0..(MaxRevealed - 1) : JumpTo(i)

SpecReveal == InitReveal /\ [][NextReveal]_vars

(* ======================= properties ======================= *)

(* C1: in every reachable state -1 <= currentIndex < total. *)
C1_IndexInRange == -1 <= currentIndex /\ currentIndex < totalIterations

(* C2: with total == 0 every command leaves state == idle and              *)
(* currentIndex == -1.                                                     *)
C2_EmptyIsNoOp == totalIterations = 0 => (state = "idle" /\ currentIndex = -1)

(* C3: whenever the state is idle, currentIndex == -1. *)
C3_IdleImpliesUnstarted == state = "idle" => currentIndex = -1

(* C3 witness: a length change while paused on a jumped-to index moved the *)
(* controller back to idle.                                                *)
C3_Witness ==
  /\ state = "idle"
  /\ lastOp.op = "lengthChange"
  /\ lastOp.from = "paused"
  /\ lastOp.fromIndex > 0

(* C4: whenever currentIndex == -1 the state is idle. *)
C4_UnstartedImpliesIdle == currentIndex = -1 => state = "idle"

(* C5: whenever the state is done, currentIndex == total-1. *)
C5_DoneAtEnd == state = "done" => currentIndex = totalIterations - 1

(* C6: at most one auto-advance timer is pending, and a pending timer is   *)
(* the one the timer handle tracks.                                        *)
C6_SingleTimer ==
  /\ Cardinality(timers) <= 1
  /\ \A t \in timers : t.id = timerRef

(* C6 witness: a timer fire advanced the index and left its successor      *)
(* pending.                                                                *)
C6_Witness ==
  /\ lastOp.op = "timerFire"
  /\ state = "playing"
  /\ currentIndex = lastOp.fromIndex + 1
  /\ Cardinality(timers) = 1

(* C7: after pause, step, stepBack, reset or jumpTo, and until play is     *)
(* invoked again, the controller is not playing and no timer is pending,   *)
(* so no timer fire can change currentIndex or state.                      *)
C7_ManualCancels == lastCmd \in ManualCommands => (timers = {} /\ state # "playing")

(* C7 witness: step() was invoked while playing, with a timer pending, and *)
(* did not reach the end.                                                  *)
C7_Witness ==
  /\ lastOp.op = "step"
  /\ lastOp.from = "playing"
  /\ state = "paused"
  /\ timers = {}

(* C8: a timer callback that runs while the state is not playing changes   *)
(* neither state nor currentIndex and schedules no timer.                  *)
C8_StaleFireNoOp ==
  [][(lastOp'.op = "staleFire" /\ state # "playing")
       => (state' = state /\ currentIndex' = currentIndex
           /\ timers' = timers /\ timerRef' = timerRef)]_vars

(* C8 witness: a cancelled callback ran while paused before the end of the *)
(* sequence.                                                               *)
C8_Witness ==
  /\ lastOp.op = "staleFire"
  /\ lastOp.from = "paused"
  /\ state = "paused"
  /\ currentIndex + 1 < totalIterations

(* C9: from idle with total = N > 0, play() sets currentIndex to 0 and     *)
(* state to playing; each timer fire with currentIndex+1 < N raises        *)
(* currentIndex by exactly 1 and stays playing; the fire with              *)
(* currentIndex+1 == N moves to done at N-1; playing leads to done.        *)
C9_AutoStep ==
  /\ lastOp'.op = "play" => (state' = "playing" /\ currentIndex' = 0)
  /\ (lastOp'.op = "timerFire" /\ currentIndex + 1 < totalIterations)
       => (state' = "playing" /\ currentIndex' = currentIndex + 1)
  /\ (lastOp'.op = "timerFire" /\ currentIndex + 1 = totalIterations)
       => (state' = "done" /\ currentIndex' = totalIterations - 1)
  /\ state = "done" => UNCHANGED <<state, currentIndex>>

C9_AutoPlayback ==
  /\ [][C9_AutoStep]_vars
  /\ (state = "playing") ~> (state = "done" /\ currentIndex = totalIterations - 1)

(* C9 witness: four iterations played to the end by timer fires alone. *)
C9_Witness ==
  /\ totalIterations = 4
  /\ state = "done"
  /\ currentIndex = 3
  /\ lastOp.op = "timerFire"
  /\ lastOp.fromIndex = 3

(* C10: jumpTo(i), for any integer i, yields paused with                   *)
(* currentIndex = min(max(i, 0), total-1) and no timer pending.            *)
C10_JumpClips ==
  lastOp.op = "jumpTo"
    => /\ state = "paused"
       /\ currentIndex = Min(Max(lastOp.arg, 0), totalIterations - 1)
       /\ timers = {}

(* C11: step() invoked in paused or playing at index i sets currentIndex   *)
(* to min(i+1, total-1); the state is done when the resulting currentIndex *)
(* is total-1 and paused otherwise.                                        *)
C11_StepDoneOnReach ==
  (/\ lastOp.op = "step"
   /\ lastOp.from \in {"paused", "playing"}
   /\ lastOp.fromIndex \in 0..(totalIterations - 1))
    => /\ currentIndex = Min(lastOp.fromIndex + 1, totalIterations - 1)
       /\ state = IF currentIndex = totalIterations - 1 THEN "done" ELSE "paused"

(* C11 as amended: step() in paused or playing at index i with i+1 < total *)
(* sets currentIndex to i+1 and the state to paused, also when i+1 is the  *)
(* last index; with i+1 >= total it leaves currentIndex and sets done.     *)
C11_StepAdvancesOrDone ==
  (lastOp.op = "step" /\ lastOp.from \in {"paused", "playing"})
    => IF lastOp.fromIndex + 1 < totalIterations
         THEN currentIndex = lastOp.fromIndex + 1 /\ state = "paused"
         ELSE currentIndex = lastOp.fromIndex /\ state = "done"

(* C11 witness: a step from paused onto the last index stays paused. *)
C11_Witness ==
  /\ lastOp.op = "step"
  /\ lastOp.from = "paused"
  /\ lastOp.fromIndex = totalIterations - 2
  /\ currentIndex = totalIterations - 1
  /\ state = "paused"

(* C12: with total > 0, play() from idle or done yields playing at index   *)
(* 0, and play() from paused at any index 0..total-1 yields playing with   *)
(* currentIndex unchanged.                                                 *)
C12_PlayResumes ==
  (lastOp.op = "play" /\ totalIterations > 0)
    => /\ state = "playing"
       /\ lastOp.from \in {"idle", "done"} => currentIndex = 0
       /\ (lastOp.from = "paused" /\ lastOp.fromIndex \in 0..(totalIterations - 1))
            => currentIndex = lastOp.fromIndex

(* C12 as amended: with total > 0, play() from idle or done yields playing *)
(* at index 0; play() from paused at an index before the last one yields   *)
(* playing with currentIndex unchanged, and from paused at the last index  *)
(* it restarts at index 0.                                                 *)
C12_PlayResumesOrRestarts ==
  (lastOp.op = "play" /\ totalIterations > 0)
    => /\ state = "playing"
       /\ lastOp.from \in {"idle", "done"} => currentIndex = 0
       /\ (lastOp.from = "paused" /\ lastOp.fromIndex \in 0..(totalIterations - 2))
            => currentIndex = lastOp.fromIndex
       /\ (lastOp.from = "paused" /\ lastOp.fromIndex = totalIterations - 1)
            => currentIndex = 0

(* C12 witness: playback resumed from paused in the middle of a sequence. *)
C12_Witness ==
  /\ lastOp.op = "play"
  /\ lastOp.from = "paused"
  /\ lastOp.fromIndex = 1
  /\ currentIndex = 1
  /\ totalIterations = 3
  /\ state = "playing"

(* C13: setSpeed(s) while playing leaves state and currentIndex unchanged, *)
(* cancels the in-flight timer and leaves exactly one pending timer, of    *)
(* delay BaseDelay / s.                                                    *)
C13_RetimedTo(s) ==
  /\ state' = state
  /\ currentIndex' = currentIndex
  /\ Cardinality(timers') = 1
  /\ \A t \in timers' : t.id = timerRef' /\ t.delay * s = BaseDelay

C13_SetSpeedReschedules ==
  [][(lastOp'.op = "setSpeed" /\ state = "playing")
       => /\ C13_RetimedTo(lastOp'.arg)
          /\ lastCancelled' = [total |-> totalIterations, speed |-> speed]]_vars

(* C13 as amended: setSpeed(s) while playing leaves state and currentIndex *)
(* unchanged and leaves exactly one pending timer, of delay BaseDelay / s; *)
(* when s differs from the current speed the in-flight timer is cancelled  *)
(* and a new one scheduled, when s equals it the in-flight timer is left   *)
(* running.                                                                *)
C13_SetSpeedReschedulesOnChange ==
  [][(lastOp'.op = "setSpeed" /\ state = "playing")
       => /\ C13_RetimedTo(lastOp'.arg)
          /\ lastOp'.arg # speed
               => lastCancelled' = [total |-> totalIterations, speed |-> speed]
          /\ lastOp'.arg = speed => UNCHANGED <<timers, timerRef, lastCancelled>>]_vars

(* C13 witness: the speed was raised from 1 to 3 while playing and the     *)
(* pending timer has a third of the base delay.                            *)
C13_Witness ==
  /\ lastOp.op = "setSpeed"
  /\ lastOp.arg = 3
  /\ lastOp.from = "playing"
  /\ state = "playing"
  /\ lastCancelled # <<>>
  /\ lastCancelled.speed = 1
  /\ \E t \in timers : t.delay = 1000

(* C14: after the sequence length changed, in whatever state, the          *)
(* controller is idle with currentIndex = -1 and no timer pending.         *)
C14_LengthChangeResets ==
  lastOp.op = "lengthChange"
    => /\ state = "idle"
       /\ currentIndex = -1
       /\ timers = {}
       /\ timerRef = NoTimer

(* C14 witness: the length changed while playing past the first index. *)
C14_Witness ==
  /\ lastOp.op = "lengthChange"
  /\ lastOp.from = "playing"
  /\ lastOp.fromIndex > 0
  /\ state = "idle"

(* C15: whenever the displayed sequence is replaced by another one, of the *)
(* same length or not, playback is reset to idle with currentIndex = -1:   *)
(* an index reached on one sequence is not carried over to another.        *)
C15_ReplacementResets ==
  /\ lastOp.op = "lengthChange" => (state = "idle" /\ currentIndex = -1)
  /\ (lastOp.op = "traceReplaced" /\ lastOp.fromIndex \in 0..(totalIterations - 1))
       => (state = "idle" /\ currentIndex = -1)

(* C16: pause() while paused, reset() while idle, step() while done,       *)
(* play() while playing and setSpeed(s) with s the current speed leave     *)
(* state, currentIndex and speed unchanged.                                *)
C16_Idempotent ==
  [][(\/ lastOp'.op = "pause" /\ state = "paused"
      \/ lastOp'.op = "reset" /\ state = "idle"
      \/ lastOp'.op = "step" /\ state = "done"
      \/ lastOp'.op = "play" /\ state = "playing"
      \/ lastOp'.op = "setSpeed" /\ lastOp'.arg = speed)
       => UNCHANGED <<state, currentIndex, speed>>]_vars

(* C17: every iteration with is_final == true is classified identify_gap,  *)
(* whatever its position, code and reasoning.                              *)
C17_FinalIsIdentifyGap ==
  (phaseOut.op # "none" /\ Classed.is_final) => phaseOut.full = "identify_gap"

(* C18: detectPhase is prefix-stable: classifying iteration k with only    *)
(* iterations 1..k supplied returns the same phase as classifying it with  *)
(* all iterations supplied.                                                *)
C18_PrefixStable == phaseOut.op # "none" => phaseOut.prefix = phaseOut.full

(* C19: detectPhase always returns one of the five phases, and for an      *)
(* iteration that matches no rule it returns the positional default:       *)
(* orient for early positions, locate for later ones.                      *)
C19_NoSignal ==
  /\ ~Classed.is_final
  /\ Classed.reasoning = {}
  /\ Classed.code \in {{}, {"[l for l in lines if key in l]"}}
  /\ phaseOut.op \in {"detectPhase_006", "detectPhase_007"}

C19_NoSignal_005 ==
  /\ ~Classed.is_final
  /\ Classed.reasoning = {}
  /\ Classed.code \in {{}, {"import re"}, {"llm_query(prompt)"}, {"list_files()"}}
  /\ phaseOut.op = "detectPhase_005"

C19_TotalWithDefault ==
  phaseOut.op # "none"
    => /\ phaseOut.full \in Phases
       /\ phaseOut.prefix \in Phases
       /\ C19_NoSignal_005
            => phaseOut.full = IF Classed.iteration <= 2 THEN "orient" ELSE "locate"
       /\ C19_NoSignal
            => phaseOut.full = IF Classed.iteration <= 3 THEN "orient" ELSE "locate"

(* C19 witness: a late iteration with unrecognised code and no reasoning   *)
(* got the default of late positions.                                      *)
C19_Witness ==
  /\ phaseOut.op = "detectPhase_005"
  /\ Classed.iteration = 3
  /\ Classed.code = {"import re"}
  /\ Classed.reasoning = {}
  /\ ~Classed.is_final
  /\ phaseOut.full = "locate"

(* C20: an iteration that shows both code-tracing and search signals and   *)
(* matches none of the higher-priority rules (the identify_gap rules, the  *)
(* orient rule, the cross_reference rule) is classified trace_code at      *)
(* every position and for every sequence length.                           *)
C20_Tracing ==
  \/ /\ phaseOut.op = "detectPhase_005"
     /\ test(RE5_traceReasoning, Classed.reasoning)
  \/ /\ phaseOut.op = "detectPhase_006"
     /\ \/ test(RE6_traceCode, Classed.code)
        \/ test(RE6_traceReasoning, Classed.reasoning)

C20_Searching ==
  \/ /\ phaseOut.op = "detectPhase_005"
     /\ \/ test(RE5_locateReasoning, Classed.reasoning)
        \/ test(RE5_regexSearch \cup RE5_listCompFilter \cup RE5_findIndex, Classed.code)
  \/ /\ phaseOut.op = "detectPhase_006"
     /\ \/ test(RE6_locateCode, Classed.code)
        \/ test(RE6_locateReasoning, Classed.reasoning)

C20_NearEndSynthesis ==
  /\ phaseOut.op = "detectPhase_005"
  /\ test(RE5_synthesizeReasoning, Classed.reasoning)
  /\ Classed.iteration >= Len(iterations) - 2

C20_Terminal ==
  \/ Classed.is_final
  \/ test({"SUBMIT(answer)", "submit(answer)"}, Classed.code)
  \/ C20_NearEndSynthesis

C20_Orienting ==
  /\ Classed.iteration <= 2
  /\ \/ test({"print(context[:500])", "len(context)"}, Classed.code)
     \/ test({"explore the structure"}, Classed.reasoning)

C20_CrossReferencing ==
  phaseOut.op = "detectPhase_006" /\ test(RE6_llmQuery, Classed.code)

C20_BothSignals ==
  /\ C20_Tracing
  /\ C20_Searching
  /\ ~C20_Terminal
  /\ ~C20_Orienting
  /\ ~C20_CrossReferencing

C21_StepBackFloors ==
  lastOp.op = "stepBack"
    => /\ state = "paused"
       /\ currentIndex = Max(0, lastOp.fromIndex - 1)
       /\ lastOp.fromIndex \in {-1, 0} => currentIndex = 0
       /\ currentIndex >= 0

(* C21 witness: stepBack() from idle on a non-empty sequence. *)
C21_Witness ==
  /\ lastOp.op = "stepBack"
  /\ lastOp.from = "idle"
  /\ lastOp.fromIndex = -1
  /\ totalIterations > 0
  /\ state = "paused"
  /\ currentIndex = 0

(* C22: reset() from any state yields idle with currentIndex = -1 and no   *)
(* timer pending, and a subsequent play() starts again from index 0.       *)
C22_ResetClears ==
  lastOp.op = "reset"
    => /\ state = "idle"
       /\ currentIndex = -1
       /\ timers = {}
       /\ timerRef = NoTimer

C22_ResetThenPlay ==
  /\ [](C22_ResetClears)
  /\ [][(lastOp.op = "reset" /\ lastOp'.op = "play")
          => (state' = "playing" /\ currentIndex' = 0)]_vars

(* C22 as amended: reset() from any state yields idle with                 *)
(* currentIndex = -1 and no timer pending; on a non-empty sequence a       *)
(* subsequent play() starts again from index 0, on an empty one it leaves  *)
(* the controller idle at -1.                                              *)
C22_ResetThenPlayNonEmpty ==
  /\ [](C22_ResetClears)
  /\ [][(lastOp.op = "reset" /\ lastOp'.op = "play")
          => IF totalIterations > 0
               THEN state' = "playing" /\ currentIndex' = 0
               ELSE state' = "idle" /\ currentIndex' = -1]_vars

(* C22 witness: reset() while playing past the first index. *)
C22_Witness ==
  /\ lastOp.op = "reset"
  /\ lastOp.from = "playing"
  /\ lastOp.fromIndex > 0
  /\ state = "idle"
  /\ timers = {}

(* C28: in every settled state an auto-advance timer is pending if and    *)
(* only if the state is playing: none is pending in idle, paused or done,  *)
(* and playing is never without a pending, tracked timer.                  *)
C28_TimerIffPlaying ==
  /\ (timers # {}) <=> (state = "playing")
  /\ (timerRef # NoTimer) <=> (state = "playing")
  /\ state = "playing" => \E t \in timers : t.id = timerRef

(* C28 witness: playback resumed from paused and a timer is pending. *)
C28_Witness ==
  /\ lastOp.op = "play"
  /\ lastOp.from = "paused"
  /\ state = "playing"
  /\ \E t \in timers : t.id = timerRef

(* C29: speed is changed only by setSpeed: play, pause, step, stepBack,    *)
(* reset, jumpTo, every timer fire and the reset caused by a change of the *)
(* sequence length leave it unchanged.                                     *)
C29_SpeedFrame == [][lastOp'.op # "setSpeed" => speed' = speed]_vars

(* C29 witness: reset() was invoked while playing at a speed other than    *)
(* the initial one, and that speed is still set.                           *)
C29_Witness ==
  /\ lastOp.op = "reset"
  /\ lastOp.from = "playing"
  /\ speed = 3
  /\ state = "idle"

(* C23: a non-terminal iteration without a submission marker that lies in *)
(* the early window (position <= 2) and shows a structural-scanning signal *)
(* (printing a prefix slice, type/len/dir/keys introspection, orientation  *)
(* vocabulary in its reasoning) is classified orient, whatever trace or    *)
(* search signals it also shows.                                           *)
C23_NonTerminal ==
  /\ ~Classed.is_final
  /\ ~test({"SUBMIT(answer)", "submit(answer)"}, Classed.code)

C23_Scanning ==
  \/ test({"print(context[:500])", "len(context)"}, Classed.code)
  \/ test({"explore the structure"}, Classed.reasoning)

C23_EarlyScanIsOrient ==
  (/\ phaseOut.op \in {"detectPhase_005", "detectPhase_006"}
   /\ C23_NonTerminal
   /\ Classed.iteration <= 2
   /\ C23_Scanning)
    => phaseOut.full = "orient"

(* C23 witness: the second iteration prints a prefix of the context while  *)
(* its reasoning has orientation, tracing and search vocabulary.           *)
C23_Witness ==
  /\ phaseOut.op = "detectPhase_005"
  /\ Classed.iteration = 2
  /\ Classed.code = {"print(context[:500])"}
  /\ Classed.reasoning = {"explore the structure", "follow the call chain to find it"}
  /\ ~Classed.is_final
  /\ phaseOut.full = "orient"

(* C24: a non-terminal iteration past the early window (positions 1..3 for *)
(* this rule) whose code references a named source that no preceding       *)
(* iteration's code referenced is classified cross_reference; an iteration *)
(* whose referenced sources were all referenced by preceding iterations is *)
(* not; only the iterations before it in the sequence count as preceding.  *)
C24_Referenced(code) ==
  {v \in {"a", "b"} : \E line \in code :
     \/ v = "a" /\ line = "exec_source('a', 'head -5')"
     \/ v = "b" /\ line = "inspect_source('b')"}

C24_Preceding ==
  UNION {C24_Referenced(iterations[i].code) : i \in 1..(phaseOut.k - 1)}

C24_FirstTouch ==
  phaseOut.op = "detectPhase_007"
    => /\ (/\ C23_NonTerminal
           /\ Classed.iteration > 3
           /\ C24_Referenced(Classed.code) \ C24_Preceding # {})
            => phaseOut.full = "cross_reference"
       /\ C24_Referenced(Classed.code) \subseteq C24_Preceding
            => phaseOut.full # "cross_reference"

(* C24 witness: the fourth of five iterations is the first to reference    *)
(* source b; sources a and b are referenced around it.                     *)
C24_Witness ==
  /\ phaseOut.op = "detectPhase_007"
  /\ Len(iterations) = 5
  /\ phaseOut.k = 4
  /\ Classed.code = {"inspect_source('b')"}
  /\ iterations[3].code = {"exec_source('a', 'head -5')"}
  /\ iterations[5].code = {"exec_source('a', 'head -5')"}
  /\ phaseOut.full = "cross_reference"

(* C25: an iteration whose code performs a pattern search (regex          *)
(* search/match call, .find/.index/.count, filtering comprehension) and    *)
(* whose reasoning uses search vocabulary is classified locate whenever it *)
(* triggers neither the terminal rule nor the orient rule (nor, by the     *)
(* order of the cascade, the cross_reference or the trace rule).           *)
C25_PatternSearch ==
  test({"re.findall(pat, text)", "text.find(key)", "[l for l in lines if key in l]"},
       Classed.code)

C25_SearchVocabulary ==
  test({"searching for the matching entry", "find the class implementation",
        "follow the call chain to find it"}, Classed.reasoning)

C25_SearchIsLocate ==
  (/\ phaseOut.op \in {"detectPhase_005", "detectPhase_006"}
   /\ C25_PatternSearch
   /\ C25_SearchVocabulary
   /\ C23_NonTerminal
   /\ ~(Classed.iteration <= 2 /\ C23_Scanning)
   /\ ~C20_CrossReferencing
   /\ ~C20_Tracing)
    => phaseOut.full = "locate"

(* C30: detectPhase returns identify_gap only for an iteration that is     *)
(* terminal or whose code contains a SUBMIT( call: an iteration with       *)
(* neither is never labelled identify_gap, at any position and for any     *)
(* sequence length.                                                        *)
C30_IdentifyGapOnlyTerminal ==
  (phaseOut.op # "none" /\ C23_NonTerminal)
    => (phaseOut.full # "identify_gap" /\ phaseOut.prefix # "identify_gap")

(* C26: annotatePhases never overwrites an existing label and never       *)
(* mutates its input: it returns a list of the same length and order in    *)
(* which each iteration that already has a phase keeps it and each one     *)
(* without gets detectPhase's label, the input records being left          *)
(* unchanged; hence annotatePhases(annotatePhases(xs)) = annotatePhases(xs)*)
C26_Detect(iter, xs) ==
  CASE phaseOut.op = "annotatePhases_005" -> detectPhase_005(iter, xs)
    [] phaseOut.op = "annotatePhases_006" -> detectPhase_006(iter, xs)
    [] OTHER -> detectPhase_007(iter, xs)

C26_Again ==
  CASE phaseOut.op = "annotatePhases_005" -> annotatePhases_005(annotated).output
    [] phaseOut.op = "annotatePhases_006" -> annotatePhases_006(annotated).output
    [] OTHER -> annotatePhases_007(annotated).output

C26_KeepsLabels ==
  annotated # <<>>
    => /\ Len(annotated) = Len(iterations)
       /\ \A i \in 1..Len(iterations) :
            annotated[i] =
              [iterations[i] EXCEPT !.phase =
                 IF iterations[i].phase # NoPhase
                   THEN iterations[i].phase
                   ELSE C26_Detect(iterations[i], iterations)]
       /\ C26_Again = annotated

C26_AnnotateOnce ==
  /\ [](C26_KeepsLabels)
  /\ [][iterations' = iterations]_vars

(* C26 witness: of an annotated sequence one iteration kept the label it   *)
(* arrived with and another one was given a label.                         *)
C26_Witness ==
  /\ phaseOut.op = "annotatePhases_005"
  /\ \E i, j \in 1..Len(annotated) :
       /\ iterations[i].phase = "cross_reference"
       /\ annotated[i].phase = "cross_reference"
       /\ iterations[j].phase = NoPhase
       /\ annotated[j].phase = "locate"

(* C27: for a fixed iteration sequence the label usePhaseDetection reports *)
(* for a revealed iteration k is the same for every currentIndex >= k, as  *)
(* playback advances, steps back or jumps: at every position at most one   *)
(* label was ever reported, and the list reported now has those labels.    *)
C27_LabelsStable ==
  annotated # <<>>
    => /\ \A k \in 1..Len(seen) : Cardinality(seen[k]) <= 1
       /\ LET phases == usePhaseDetection(annotated, currentIndex).phases
          IN  /\ Len(phases) = currentIndex + 1
              /\ \A k \in 1..Len(phases) : seen[k] = {phases[k]}

(* C27 witness: a sequence of three was revealed to its end and stepped    *)
(* back, its first iteration being one whose label detectPhase of part_005 *)
(* gives differently when only the first iteration is supplied.            *)
C27_Witness ==
  /\ phaseOut.op = "annotatePhases_005"
  /\ Len(seen) = 3
  /\ \A k \in 1..3 : seen[k] # {}
  /\ lastOp.op = "stepBack"
  /\ currentIndex = 1
  /\ detectPhase_005(iterations[1], SubSeq(iterations, 1, 1)) # annotated[1].phase

====
